---- MODULE Spec2Model ----
(***************************************************************************)
(* Verification model of the anomaly retrieval-and-aggregation pipeline of *)
(* v1_base_with_modal.py: fetch_anomalies (the paging loop, the per-anomaly*)
(* metrics, the per-root-cause resolution) and                             *)
(* fetch_cost_usage_for_root_cause (filter construction, usage query,      *)
(* result mapping, local catch).                                           *)
(*                                                                         *)
(* Conventions.                                                            *)
(*  - A raw API value is a tagged record: None (a missing key or a null),  *)
(*    Str(s), Num(n).  A float is carried as an integer count of           *)
(*    thousandths; billing amounts are non-negative.                       *)
(*  - A timestamp string "YYYY-MM-DDThh:mm:ssZ" is Ts(<<y, m, d>>, time):  *)
(*    the text before the first 'T' as a triple, and the rest.             *)
(*  - A datetime is its proleptic Gregorian ordinal, as date.toordinal().  *)
(*  - A "%.2f" string is Str2(c): whole and two-digit fraction of c cents. *)
(*  - A call that may raise yields [ok |-> TRUE, v |-> value] or Raised.   *)
(***************************************************************************)
EXTENDS Integers, Sequences, FiniteSets, TLC

(* ------------------------------ bounds -------------------------------- *)
\* list-anomalies calls the listing service serves in one run
MaxListCalls == 3
\* records the listing service holds, over all pages: the anomaly records
\* and the root-cause records on them, counted together
MaxRecords == 3

(* --------------------------- program constants ------------------------ *)
WindowDays == 90

(* ------------------------------ raw values ---------------------------- *)
None == [t |-> "none"]
Undef == [t |-> "undef"]
Raised == [ok |-> FALSE]

Str(s) == [t |-> "str", v |-> s]
Num(n) == [t |-> "num", v |-> n]
Ts(d, tm) == [t |-> "str", date |-> d, time |-> tm]
Ok(x) == [ok |-> TRUE, v |-> x]

\* what the caller of fetch_anomalies receives: the returned list, or the
\* exception that left the function, with the call that raised it
Returned(x) == [t |-> "model", v |-> x]
Exception(from) == [t |-> "exception", from |-> from]

\* Python truth value of a raw value: `if value`, `if not next_token`
Truthy(x) ==
  CASE x.t = "str" -> x.v # ""
    [] x.t = "num" -> x.v # 0
    [] OTHER -> FALSE

\* dict.get(key, default)
GetOr(x, default) == IF x = None THEN default ELSE x

\* float(x): a number converts, a non-numeric string or None raises
ToFloat(x) == IF x.t = "num" THEN Ok(x.v) ELSE Raised

(* -------------------------------- dates ------------------------------- *)
Years == 2023..2025

IsLeap(y) == (y % 4 = 0) /\ ((y % 100 # 0) \/ (y % 400 = 0))

DaysInMonth(y, m) ==
  IF m = 2 THEN (IF IsLeap(y) THEN 29 ELSE 28)
  ELSE IF m \in {4, 6, 9, 11} THEN 30 ELSE 31

DaysBeforeYear(y) ==
  LET p == y - 1 IN p * 365 + (p \div 4) - (p \div 100) + (p \div 400)

RECURSIVE DaysBeforeMonth(_, _)
DaysBeforeMonth(y, m) ==
  IF m = 1 THEN 0 ELSE DaysBeforeMonth(y, m - 1) + DaysInMonth(y, m - 1)

ValidDate(d) ==
  /\ d[1] \in Years
  /\ d[2] \in 1..12
  /\ d[3] >= 1
  /\ d[3] <= DaysInMonth(d[1], d[2])

ToOrdinal(d) == DaysBeforeYear(d[1]) + DaysBeforeMonth(d[1], d[2]) + d[3]

FromOrdinal(n) ==
  LET y == CHOOSE c \in Years : DaysBeforeYear(c) < n /\ n <= DaysBeforeYear(c + 1)
      r == n - DaysBeforeYear(y)
      m == CHOOSE c \in 1..12 :
             DaysBeforeMonth(y, c) < r /\ r <= DaysBeforeMonth(y, c) + DaysInMonth(y, c)
  IN <<y, m, r - DaysBeforeMonth(y, m)>>

\* datetime.strptime(ts.split('T')[0], '%Y-%m-%d'); ts = anomaly[key] raises on
\* a missing key, strptime on text that is no calendar date
ParseDate(ts) ==
  IF ts = None THEN Raised
  ELSE IF ValidDate(ts.date) THEN Ok(ToOrdinal(ts.date)) ELSE Raised

\* a date string "YYYY-MM-DD"
DateStr(d) == [t |-> "str", date |-> d]

\* dt.strftime('%Y-%m-%d')
FormatDate(n) == DateStr(FromOrdinal(n))

(* ------------------------- "%.2f" formatting -------------------------- *)
\* The quotients n/d (n thousandths, d a divisor) that lie exactly half-way
\* between two cents and whose IEEE double lies above the half: Python
\* formats the double, so these round up and every other tie rounds down.
TiesRoundedUp ==
  { <<5, 1>>, <<10, 2>>, <<15, 3>>, <<125, 5>>, <<125, 25>>,
    <<12345, 1>>, <<12345, 3>> }

Str2(c) == [t |-> "str", whole |-> c \div 100, frac |-> c % 100]

\* f"{(n / d):.2f}" for n thousandths, d >= 1
Fmt2(n, d) ==
  LET q == n \div (10 * d)
      r == n % (10 * d)
  IN Str2(IF 2 * r > 10 * d \/ (2 * r = 10 * d /\ <<n, d>> \in TiesRoundedUp)
          THEN q + 1 ELSE q)

(* ------------------------------ entities ------------------------------ *)
\* CostUsageDataPoint.__init__
CostUsageDataPoint(date, amount, unit) ==
  [Date |-> date, Amount |-> amount, Unit |-> unit]

\* fault: the contribution is cut to two decimals, not rounded
CostImpactOf_Truncated(cost_impact) ==
  IF Truthy(cost_impact)
  THEN LET f == ToFloat(cost_impact)
       IN IF f.ok THEN Ok(Str2(f.v \div 10)) ELSE Raised
  ELSE Ok(Str2(0))

\* RootCauseEntry.CostImpact: "0.00" for a falsy contribution, else the
\* float formatted; float() raises on a non-numeric value
CostImpactOf(cost_impact) ==
  IF Truthy(cost_impact)
  THEN LET f == ToFloat(cost_impact)
       IN IF f.ok THEN Ok(Fmt2(f.v, 1)) ELSE Raised
  ELSE Ok(Str2(0))

\* fault: a missing dimension value is stored as the empty string
RootCauseEntry_EmptyForAbsent(service, region, usage_type, linked_account, linked_account_name, cost_impact) ==
  LET c == CostImpactOf(cost_impact)
  IN IF c.ok
     THEN Ok([Service |-> GetOr(service, Str("")),
              Region |-> GetOr(region, Str("")),
              UsageType |-> GetOr(usage_type, Str("")),
              LinkedAccount |-> GetOr(linked_account, Str("")),
              LinkedAccountName |-> GetOr(linked_account_name, Str("")),
              Tags |-> [Environment |-> "Production", Owner |-> "FinanceTeam"],
              CostImpact |-> c.v,
              CostUsageGraph |-> <<>>])
     ELSE Raised

\* RootCauseEntry.__init__ (raises when CostImpactOf raises)
RootCauseEntry(service, region, usage_type, linked_account, linked_account_name, cost_impact) ==
  LET c == CostImpactOf(cost_impact)
  IN IF c.ok
     THEN Ok([Service |-> service,
              Region |-> region,
              UsageType |-> usage_type,
              LinkedAccount |-> linked_account,
              LinkedAccountName |-> linked_account_name,
              Tags |-> [Environment |-> "Production", Owner |-> "FinanceTeam"],
              CostImpact |-> c.v,
              CostUsageGraph |-> <<>>])
     ELSE Raised

\* fault: the average is computed from the formatted total
AverageDailyCost_FromRoundedTotal(impact, duration) ==
  LET total == Fmt2(impact, 1)
      rounded == 10 * (total.whole * 100 + total.frac)
  IN IF duration > 0 THEN Fmt2(rounded, duration) ELSE Fmt2(rounded, 1)

\* fault: the total is never divided by the duration
AverageDailyCost_NoDivision(impact, duration) == Fmt2(impact, 1)

\* AnomalyEntry.AverageDailyCost
AverageDailyCost(impact, duration) ==
  IF duration > 0 THEN Fmt2(impact, duration) ELSE Fmt2(impact, 1)

\* fault: the last detection is taken from the start of the anomaly
AnomalyEntry_LastDetectedIsStart(anomaly_id, start_date, end_date, impact, duration, root_causes) ==
  [AnomalyId |-> anomaly_id,
   StartDate |-> start_date,
   EndDate |-> end_date,
   LastDetectedDate |-> start_date,
   DurationInDays |-> duration,
   TotalCostImpact |-> Fmt2(impact, 1),
   AverageDailyCost |-> AverageDailyCost(impact, duration),
   Currency |-> "USD",
   RootCauses |-> root_causes]

\* AnomalyEntry.__init__
AnomalyEntry(anomaly_id, start_date, end_date, impact, duration, root_causes) ==
  [AnomalyId |-> anomaly_id,
   StartDate |-> start_date,
   EndDate |-> end_date,
   LastDetectedDate |-> end_date,
   DurationInDays |-> duration,
   TotalCostImpact |-> Fmt2(impact, 1),
   AverageDailyCost |-> AverageDailyCost(impact, duration),
   Currency |-> "USD",
   RootCauses |-> root_causes]

\* fault: the span is taken exclusive of the end day
Duration_Exclusive(anomaly_start, anomaly_end) ==
  LET span == anomaly_end - anomaly_start
  IN IF span # 0 THEN span ELSE 1

\* duration = (anomaly_end - anomaly_start).days + 1 or 1
Duration(anomaly_start, anomaly_end) ==
  LET span == (anomaly_end - anomaly_start) + 1
  IN IF span # 0 THEN span ELSE 1

\* fault: a missing total impact is converted as it is
ImpactOf_NoDefault(anomaly) == ToFloat(anomaly.Impact)

\* impact = float(anomaly.get('Impact', {}).get('TotalImpact', 0))
ImpactOf(anomaly) == ToFloat(GetOr(anomaly.Impact, Num(0)))

(* ------------------ fetch_cost_usage_for_root_cause ------------------- *)
\* fault: only a missing value is skipped, an empty string gets a clause
AddFilter_EmptyIncluded(filter_list, key, value) ==
  IF value # None
  THEN Append(filter_list, [Dimensions |-> [Key |-> key, Values |-> <<value>>]])
  ELSE filter_list

\* add_filter(key, value)
AddFilter(filter_list, key, value) ==
  IF Truthy(value)
  THEN Append(filter_list, [Dimensions |-> [Key |-> key, Values |-> <<value>>]])
  ELSE filter_list

\* the four add_filter calls, in source order
FilterList(root_cause) ==
  AddFilter(
    AddFilter(
      AddFilter(
        AddFilter(<<>>, "SERVICE", root_cause.Service),
        "REGION", root_cause.Region),
      "USAGE_TYPE", root_cause.UsageType),
    "LINKED_ACCOUNT", root_cause.LinkedAccount)

\* fault: a single clause is wrapped in a conjunction too
Filters_AlwaysAnd(filter_list) ==
  IF Len(filter_list) >= 1 THEN [And |-> filter_list] ELSE None

\* filters = filter_list[0] | {'And': filter_list} | None
Filters(filter_list) ==
  IF Len(filter_list) = 1 THEN filter_list[1]
  ELSE IF Len(filter_list) > 1 THEN [And |-> filter_list]
  ELSE None

\* fault: the end of the window is the end date itself
UsageRequest_EndNotAdvanced(start_date, end_date, root_cause) ==
  [op |-> "get_cost_and_usage",
   TimePeriod |-> [Start |-> FormatDate(start_date),
                   End |-> FormatDate(end_date)],
   Granularity |-> "DAILY",
   Metrics |-> <<"UnblendedCost">>,
   Filter |-> Filters(FilterList(root_cause))]

\* the keyword arguments of client.get_cost_and_usage
UsageRequest(start_date, end_date, root_cause) ==
  [op |-> "get_cost_and_usage",
   TimePeriod |-> [Start |-> FormatDate(start_date),
                   End |-> FormatDate(end_date + 1)],
   Granularity |-> "DAILY",
   Metrics |-> <<"UnblendedCost">>,
   Filter |-> Filters(FilterList(root_cause))]

\* fault: a missing amount defaults to "0.00"
PointOf_AmountDefaultFormatted(time_period) ==
  IF time_period.Total = None \/ time_period.TimePeriod = None
  THEN Raised
  ELSE IF time_period.TimePeriod.Start = None THEN Raised
  ELSE LET amount_data == time_period.Total.UnblendedCost
       IN Ok(CostUsageDataPoint(
               time_period.TimePeriod.Start,
               IF amount_data = None THEN Str("0.00")
               ELSE GetOr(amount_data.Amount, Str("0.00")),
               IF amount_data = None THEN Str("USD")
               ELSE GetOr(amount_data.Unit, Str("USD"))))

\* one iteration of the result loop: time_period['Total'] and
\* time_period['TimePeriod']['Start'] raise on a missing key
PointOf(time_period) ==
  IF time_period.Total = None \/ time_period.TimePeriod = None
  THEN Raised
  ELSE IF time_period.TimePeriod.Start = None THEN Raised
  ELSE LET amount_data == time_period.Total.UnblendedCost
       IN Ok(CostUsageDataPoint(
               time_period.TimePeriod.Start,
               IF amount_data = None THEN Str("0")
               ELSE GetOr(amount_data.Amount, Str("0")),
               IF amount_data = None THEN Str("USD")
               ELSE GetOr(amount_data.Unit, Str("USD"))))

\* fault: points is made before the try and the except branch returns it,
\* so the points mapped before a malformed bucket are kept
RECURSIVE MapPoints_KeepsPrefix(_)
MapPoints_KeepsPrefix(results) ==
  IF results = <<>> THEN Ok(<<>>)
  ELSE LET p == PointOf(Head(results))
           rest == MapPoints_KeepsPrefix(Tail(results))
       IN IF p.ok THEN Ok(<<p.v>> \o rest.v) ELSE Ok(<<>>)

\* the result loop over response['ResultsByTime']
RECURSIVE MapPoints(_)
MapPoints(results) ==
  IF results = <<>> THEN Ok(<<>>)
  ELSE LET p == PointOf(Head(results))
           rest == MapPoints(Tail(results))
       IN IF p.ok /\ rest.ok THEN Ok(<<p.v>> \o rest.v) ELSE Raised

\* the try body after the client call: response['ResultsByTime'] raises on
\* a missing key, the loop on a malformed bucket
TryPoints(outcome) ==
  IF ~outcome.ok THEN Raised
  ELSE IF "ResultsByTime" \notin DOMAIN outcome.v THEN Raised
  ELSE MapPoints(outcome.v.ResultsByTime)

\* fault: the except branch is missing and the error reaches the caller
FetchCostUsage_NoCatch(outcome) == TryPoints(outcome)

\* what fetch_cost_usage_for_root_cause hands to its caller for the outcome
\* of the client call: the points, or [] from `except Exception`
FetchCostUsage(outcome) ==
  LET points == TryPoints(outcome)
  IN IF points.ok THEN Ok(points.v) ELSE Ok(<<>>)

\* fault: output.insert(0, entry)
AppendEntry_Prepend(out, entry) == <<entry>> \o out

\* output.append(entry)
AppendEntry(out, entry) == Append(out, entry)

\* fault: a root cause without usage points is dropped
AppendRootCause_SkipEmpty(rcs, rc) ==
  IF rc.CostUsageGraph = <<>> THEN rcs ELSE Append(rcs, rc)

\* root_causes.append(root_cause)
AppendRootCause(rcs, rc) == Append(rcs, rc)

(* ------------------------------- state -------------------------------- *)
VARIABLES
  pc,             \* position of fetch_anomalies
  start,          \* the window of the list query
  end,
  next_token,
  response,       \* the page in hand
  output,
  i_anomaly,      \* position of `for anomaly in ...` in the page
  anomaly_start,
  anomaly_end,
  duration,
  impact,
  root_causes,
  i_rc,           \* position of `for rc in ...` in the anomaly
  root_cause,
  result,         \* what the caller of fetch_anomalies receives
  calls,          \* history: every billing-API call issued, in order
  replies,        \* history: the outcome of every call that has ended
  previous,       \* history: how the earlier run in this process ended
  now             \* the UTC date datetime.now(UTC) gives

vars ==
  <<pc, start, end, next_token, response, output, i_anomaly, anomaly_start,
    anomaly_end, duration, impact, root_causes, i_rc, root_cause, result,
    calls, replies, previous, now>>

(* ------------------------- the billing service ------------------------ *)
Tokens == {"A", "B"}

\* the clock readings of datetime.now(UTC)
Clock == {<<2024, 3, 1>>}

RECURSIVE SeqsOfLen(_, _)
SeqsOfLen(S, k) ==
  IF k = 0 THEN {<<>>}
  ELSE {<<x>> \o s : x \in S, s \in SeqsOfLen(S, k - 1)}

WithRootCauses(anomaly, rcs) ==
  [AnomalyId |-> anomaly.AnomalyId,
   AnomalyStartDate |-> anomaly.AnomalyStartDate,
   AnomalyEndDate |-> anomaly.AnomalyEndDate,
   Impact |-> anomaly.Impact,
   RootCauses |-> rcs]

\* the anomaly lists of at most n records, root causes counted
RECURSIVE AnomalySeqs(_, _, _)
AnomalySeqs(A, R, n) ==
  {<<>>} \cup
  (IF n = 0 THEN {}
   ELSE UNION { { <<WithRootCauses(x, rcs)>> \o rest :
                    x \in A, rcs \in SeqsOfLen(R, k),
                    rest \in AnomalySeqs(A, R, n - 1 - k) } : k \in 0..(n - 1) })

RECURSIVE CountRootCauses(_)
CountRootCauses(anomalies) ==
  IF anomalies = <<>> THEN 0
  ELSE Len(Head(anomalies).RootCauses) + CountRootCauses(Tail(anomalies))

\* the anomaly records of the pages received so far, in arrival order
RECURSIVE ArrivedIn(_, _)
ArrivedIn(cs, rs) ==
  IF rs = <<>> THEN <<>>
  ELSE (IF Head(cs).op = "get_anomalies" /\ Head(rs).ok
        THEN Head(rs).v.Anomalies ELSE <<>>) \o ArrivedIn(Tail(cs), Tail(rs))

Arrived == ArrivedIn(calls, replies)

ListCalls == SelectSeq(calls, LAMBDA c : c.op = "get_anomalies")
UsageCalls == SelectSeq(calls, LAMBDA c : c.op = "get_cost_and_usage")

\* anomaly records the run's listing service can return
RunAnomalies ==
  { [AnomalyId |-> Str("a1"),
     AnomalyStartDate |-> Ts(<<2024, 2, 28>>, "T00:00:00Z"),
     AnomalyEndDate |-> Ts(<<2024, 3, 1>>, "T23:59:59Z"),
     Impact |-> Num(12345)],
    [AnomalyId |-> Str("a2"),
     AnomalyStartDate |-> Ts(<<2023, 12, 31>>, "T18:30:00Z"),
     AnomalyEndDate |-> Ts(<<2023, 12, 31>>, "T06:00:00Z"),
     Impact |-> None],
    [AnomalyId |-> Str("a3"),
     AnomalyStartDate |-> Ts(<<2024, 2, 30>>, "T00:00:00Z"),
     AnomalyEndDate |-> Ts(<<2024, 3, 1>>, "T00:00:00Z"),
     Impact |-> None] }

\* root-cause records the run's listing service can return
RunRootCauses ==
  { [Service |-> Str("EC2"), Region |-> Str("us-east-1"),
     UsageType |-> Str("BoxUsage"), LinkedAccount |-> Str("111"),
     LinkedAccountName |-> Str("prod"), Contribution |-> Num(12345)],
    [Service |-> None, Region |-> Str(""),
     UsageType |-> None, LinkedAccount |-> None,
     LinkedAccountName |-> None, Contribution |-> None],
    [Service |-> Str("S3"), Region |-> None,
     UsageType |-> None, LinkedAccount |-> None,
     LinkedAccountName |-> None, Contribution |-> Str("n/a")] }

Bucket(d, amount, unit) ==
  [TimePeriod |-> [Start |-> DateStr(d)],
   Total |-> [UnblendedCost |-> [Amount |-> amount, Unit |-> unit]]]

\* usage responses the run's usage service can return
RunUsageResponses ==
  { [ResultsByTime |->
       << Bucket(<<2024, 2, 28>>, Str("1.5"), Str("USD")),
          Bucket(<<2024, 2, 29>>, None, None),
          Bucket(<<2024, 3, 1>>, Str("2.25"), Str("EUR")) >>],
    [ResultsByTime |->
       << Bucket(<<2024, 2, 28>>, Str("1.5"), Str("USD")),
          [TimePeriod |-> [Start |-> DateStr(<<2024, 2, 29>>)], Total |-> None] >>] }

\* no earlier run of fetch_anomalies in this process
FirstRun == [run |-> 1, result |-> Undef, replies |-> <<>>]

(* ------------------------------ actions ------------------------------- *)
\* fetch_anomalies up to the while loop
Init ==
  /\ now \in Clock
  /\ start = FormatDate(ToOrdinal(now) - WindowDays)
  /\ end = FormatDate(ToOrdinal(now))
  /\ pc = "loop"
  /\ next_token = None
  /\ response = Undef
  /\ output = <<>>
  /\ i_anomaly = 0
  /\ anomaly_start = 0
  /\ anomaly_end = 0
  /\ duration = 0
  /\ impact = 0
  /\ root_causes = <<>>
  /\ i_rc = 0
  /\ root_cause = Undef
  /\ result = Undef
  /\ calls = <<>>
  /\ replies = <<>>
  /\ previous = FirstRun

\* fault: the window is computed from the clock for every request
ListRequest_WindowPerCall(token) ==
  [op |-> "get_anomalies",
   DateInterval |-> [StartDate |-> FormatDate(ToOrdinal(now) - WindowDays),
                     EndDate |-> FormatDate(ToOrdinal(now))],
   NextPageToken |-> IF Truthy(token) THEN token ELSE None]

\* fault: the continuation token is never put into the request
ListRequest_NoToken(token) ==
  [op |-> "get_anomalies",
   DateInterval |-> [StartDate |-> start, EndDate |-> end],
   NextPageToken |-> None]

\* the request of one loop iteration, and client.get_anomalies(**request)
ListRequest(token) ==
  [op |-> "get_anomalies",
   DateInterval |-> [StartDate |-> start, EndDate |-> end],
   NextPageToken |-> IF Truthy(token) THEN token ELSE None]

IssueListCall ==
  /\ pc = "loop"
  /\ calls' = Append(calls, ListRequest(next_token))
  /\ pc' = "get_anomalies"
  /\ UNCHANGED <<previous, now, start, end, next_token, response, output, i_anomaly,
                 anomaly_start, anomaly_end, duration, impact, root_causes,
                 i_rc, root_cause, result, replies>>

\* client.get_anomalies returns a page
ListReturns(resp) ==
  /\ pc = "get_anomalies"
  /\ response' = resp
  /\ replies' = Append(replies, Ok(resp))
  /\ i_anomaly' = 1
  /\ pc' = "for_anomaly"
  /\ UNCHANGED <<previous, now, start, end, next_token, output, anomaly_start, anomaly_end,
                 duration, impact, root_causes, i_rc, root_cause, result, calls>>

\* fault: the list error is swallowed and the pages so far are returned
ListRaises_Swallowed ==
  /\ pc = "get_anomalies"
  /\ replies' = Append(replies, Raised)
  /\ result' = Returned(output)
  /\ pc' = "returned"
  /\ UNCHANGED <<previous, now, start, end, next_token, response, output, i_anomaly,
                 anomaly_start, anomaly_end, duration, impact, root_causes,
                 i_rc, root_cause, calls>>

\* client.get_anomalies raises: the exception leaves fetch_anomalies
ListRaises ==
  /\ pc = "get_anomalies"
  /\ replies' = Append(replies, Raised)
  /\ result' = Exception("get_anomalies")
  /\ pc' = "raised"
  /\ UNCHANGED <<previous, now, start, end, next_token, response, output, i_anomaly,
                 anomaly_start, anomaly_end, duration, impact, root_causes,
                 i_rc, root_cause, calls>>

\* fault: a record whose dates or impact do not convert is skipped
NextAnomaly_SkipsBadRecord ==
  /\ pc = "for_anomaly"
  /\ i_anomaly <= Len(response.Anomalies)
  /\ LET anomaly == response.Anomalies[i_anomaly]
         s == ParseDate(anomaly.AnomalyStartDate)
         e == ParseDate(anomaly.AnomalyEndDate)
         f == ImpactOf(anomaly)
     IN IF s.ok /\ e.ok /\ f.ok
        THEN /\ anomaly_start' = s.v
             /\ anomaly_end' = e.v
             /\ duration' = Duration(s.v, e.v)
             /\ impact' = f.v
             /\ root_causes' = <<>>
             /\ i_rc' = 1
             /\ pc' = "for_rc"
             /\ UNCHANGED i_anomaly
        ELSE /\ i_anomaly' = i_anomaly + 1
             /\ UNCHANGED <<pc, anomaly_start, anomaly_end, duration, impact,
                            root_causes, i_rc>>
  /\ UNCHANGED <<previous, now, start, end, next_token, response, output,
                 root_cause, result, calls, replies>>

\* fault: one list made before the loop is emptied with root_causes.clear()
\* for each anomaly, so the entries appended earlier, which hold that same
\* list, lose their root causes
NextAnomaly_ClearsSharedList ==
  /\ pc = "for_anomaly"
  /\ i_anomaly <= Len(response.Anomalies)
  /\ LET anomaly == response.Anomalies[i_anomaly]
         s == ParseDate(anomaly.AnomalyStartDate)
         e == ParseDate(anomaly.AnomalyEndDate)
         f == ImpactOf(anomaly)
     IN IF s.ok /\ e.ok /\ f.ok
        THEN /\ anomaly_start' = s.v
             /\ anomaly_end' = e.v
             /\ duration' = Duration(s.v, e.v)
             /\ impact' = f.v
             /\ root_causes' = <<>>
             /\ output' = [i \in 1..Len(output) |->
                             [output[i] EXCEPT !.RootCauses = <<>>]]
             /\ i_rc' = 1
             /\ pc' = "for_rc"
             /\ UNCHANGED result
        ELSE /\ result' = Exception(IF s.ok /\ e.ok THEN "float" ELSE "strptime")
             /\ pc' = "raised"
             /\ UNCHANGED <<anomaly_start, anomaly_end, duration, impact,
                            root_causes, i_rc, output>>
  /\ UNCHANGED <<previous, now, start, end, next_token, response, i_anomaly,
                 root_cause, calls, replies>>

\* the anomaly loop header and body up to root_causes = []: the dates are
\* parsed, the duration and the impact computed; a parse failure raises
NextAnomaly ==
  /\ pc = "for_anomaly"
  /\ i_anomaly <= Len(response.Anomalies)
  /\ LET anomaly == response.Anomalies[i_anomaly]
         s == ParseDate(anomaly.AnomalyStartDate)
         e == ParseDate(anomaly.AnomalyEndDate)
         f == ImpactOf(anomaly)
     IN IF s.ok /\ e.ok /\ f.ok
        THEN /\ anomaly_start' = s.v
             /\ anomaly_end' = e.v
             /\ duration' = Duration(s.v, e.v)
             /\ impact' = f.v
             /\ root_causes' = <<>>
             /\ i_rc' = 1
             /\ pc' = "for_rc"
             /\ UNCHANGED result
        ELSE /\ result' = Exception(IF s.ok /\ e.ok THEN "float" ELSE "strptime")
             /\ pc' = "raised"
             /\ UNCHANGED <<anomaly_start, anomaly_end, duration, impact,
                            root_causes, i_rc>>
  /\ UNCHANGED <<previous, now, start, end, next_token, response, output, i_anomaly,
                 root_cause, calls, replies>>

\* fault: the usage fetch is started as a task and not awaited
NextRootCause_NoAwait ==
  /\ pc = "for_rc"
  /\ i_rc <= Len(response.Anomalies[i_anomaly].RootCauses)
  /\ LET rc == response.Anomalies[i_anomaly].RootCauses[i_rc]
         e == RootCauseEntry(rc.Service, rc.Region, rc.UsageType,
                             rc.LinkedAccount, rc.LinkedAccountName,
                             GetOr(rc.Contribution, Num(0)))
     IN IF e.ok
        THEN /\ root_cause' = e.v
             /\ calls' = Append(calls, UsageRequest(anomaly_start, anomaly_end, e.v))
             /\ root_causes' = AppendRootCause(root_causes, e.v)
             /\ i_rc' = i_rc + 1
             /\ UNCHANGED <<pc, result>>
        ELSE /\ result' = Exception("RootCauseEntry")
             /\ pc' = "raised"
             /\ UNCHANGED <<root_cause, calls, root_causes, i_rc>>
  /\ UNCHANGED <<previous, now, start, end, next_token, response, output, i_anomaly,
                 anomaly_start, anomaly_end, duration, impact, replies>>

\* fault: a root cause without any dimension value gets no usage query
NextRootCause_SkipUnfiltered ==
  /\ pc = "for_rc"
  /\ i_rc <= Len(response.Anomalies[i_anomaly].RootCauses)
  /\ LET rc == response.Anomalies[i_anomaly].RootCauses[i_rc]
         e == RootCauseEntry(rc.Service, rc.Region, rc.UsageType,
                             rc.LinkedAccount, rc.LinkedAccountName,
                             GetOr(rc.Contribution, Num(0)))
     IN IF e.ok /\ FilterList(e.v) = <<>>
        THEN /\ root_cause' = e.v
             /\ root_causes' = AppendRootCause(root_causes, e.v)
             /\ i_rc' = i_rc + 1
             /\ UNCHANGED <<pc, result, calls>>
        ELSE IF e.ok
        THEN /\ root_cause' = e.v
             /\ calls' = Append(calls, UsageRequest(anomaly_start, anomaly_end, e.v))
             /\ pc' = "get_cost_and_usage"
             /\ UNCHANGED <<result, root_causes, i_rc>>
        ELSE /\ result' = Exception("RootCauseEntry")
             /\ pc' = "raised"
             /\ UNCHANGED <<root_cause, calls, root_causes, i_rc>>
  /\ UNCHANGED <<previous, now, start, end, next_token, response, output, i_anomaly,
                 anomaly_start, anomaly_end, duration, impact, replies>>

\* fault: the root causes of an anomaly are taken last to first
NextRootCause_Reversed ==
  /\ pc = "for_rc"
  /\ i_rc <= Len(response.Anomalies[i_anomaly].RootCauses)
  /\ LET rcs == response.Anomalies[i_anomaly].RootCauses
         rc == rcs[Len(rcs) - i_rc + 1]
         e == RootCauseEntry(rc.Service, rc.Region, rc.UsageType,
                             rc.LinkedAccount, rc.LinkedAccountName,
                             GetOr(rc.Contribution, Num(0)))
     IN IF e.ok
        THEN /\ root_cause' = e.v
             /\ calls' = Append(calls, UsageRequest(anomaly_start, anomaly_end, e.v))
             /\ pc' = "get_cost_and_usage"
             /\ UNCHANGED result
        ELSE /\ result' = Exception("RootCauseEntry")
             /\ pc' = "raised"
             /\ UNCHANGED <<root_cause, calls>>
  /\ UNCHANGED <<previous, now, start, end, next_token, response, output, i_anomaly,
                 anomaly_start, anomaly_end, duration, impact, root_causes,
                 i_rc, replies>>

\* the root-cause loop header, RootCauseEntry(...), and
\* fetch_cost_usage_for_root_cause up to the client call
NextRootCause ==
  /\ pc = "for_rc"
  /\ i_rc <= Len(response.Anomalies[i_anomaly].RootCauses)
  /\ LET rc == response.Anomalies[i_anomaly].RootCauses[i_rc]
         e == RootCauseEntry(rc.Service, rc.Region, rc.UsageType,
                             rc.LinkedAccount, rc.LinkedAccountName,
                             GetOr(rc.Contribution, Num(0)))
     IN IF e.ok
        THEN /\ root_cause' = e.v
             /\ calls' = Append(calls, UsageRequest(anomaly_start, anomaly_end, e.v))
             /\ pc' = "get_cost_and_usage"
             /\ UNCHANGED result
        ELSE /\ result' = Exception("RootCauseEntry")
             /\ pc' = "raised"
             /\ UNCHANGED <<root_cause, calls>>
  /\ UNCHANGED <<previous, now, start, end, next_token, response, output, i_anomaly,
                 anomaly_start, anomaly_end, duration, impact, root_causes,
                 i_rc, replies>>

\* the client call ends; the points are mapped or the except branch
\* returns []; CostUsageGraph is assigned and the root cause appended
UsageEnds(outcome) ==
  /\ pc = "get_cost_and_usage"
  /\ replies' = Append(replies, outcome)
  /\ LET fetched == FetchCostUsage(outcome)
     IN IF fetched.ok
        THEN /\ root_cause' = [root_cause EXCEPT !.CostUsageGraph = fetched.v]
             /\ root_causes' = AppendRootCause(root_causes, root_cause')
             /\ i_rc' = i_rc + 1
             /\ pc' = "for_rc"
             /\ UNCHANGED result
        ELSE /\ result' = Exception("get_cost_and_usage")
             /\ pc' = "raised"
             /\ UNCHANGED <<root_cause, root_causes, i_rc>>
  /\ UNCHANGED <<previous, now, start, end, next_token, response, output, i_anomaly,
                 anomaly_start, anomaly_end, duration, impact, calls>>

UsageReturns(resp) == UsageEnds(Ok(resp))

UsageRaises == UsageEnds(Raised)

\* the root-cause loop is exhausted: AnomalyEntry(...) and output.append
FinishAnomaly ==
  /\ pc = "for_rc"
  /\ i_rc > Len(response.Anomalies[i_anomaly].RootCauses)
  /\ LET anomaly == response.Anomalies[i_anomaly]
     IN output' = AppendEntry(output,
                              AnomalyEntry(anomaly.AnomalyId,
                                           anomaly.AnomalyStartDate,
                                           anomaly.AnomalyEndDate, impact,
                                           duration, root_causes))
  /\ i_anomaly' = i_anomaly + 1
  /\ pc' = "for_anomaly"
  /\ UNCHANGED <<previous, now, start, end, next_token, response, anomaly_start, anomaly_end,
                 duration, impact, root_causes, i_rc, root_cause, result,
                 calls, replies>>

\* fault: the loop breaks only when the token is missing
EndPage_BreaksOnNoneOnly ==
  /\ pc = "for_anomaly"
  /\ i_anomaly > Len(response.Anomalies)
  /\ next_token' = response.NextPageToken
  /\ IF response.NextPageToken # None
     THEN pc' = "loop" /\ UNCHANGED result
     ELSE pc' = "returned" /\ result' = Returned(output)
  /\ UNCHANGED <<previous, now, start, end, response, output, i_anomaly, anomaly_start,
                 anomaly_end, duration, impact, root_causes, i_rc, root_cause,
                 calls, replies>>

\* fault: without a token the loop neither breaks nor issues a call: it
\* spins on the token it has
EndPage_SpinsWithoutToken ==
  /\ pc = "for_anomaly"
  /\ i_anomaly > Len(response.Anomalies)
  /\ next_token' = response.NextPageToken
  /\ IF Truthy(response.NextPageToken)
     THEN pc' = "loop" /\ UNCHANGED result
     ELSE UNCHANGED <<pc, result>>
  /\ UNCHANGED <<previous, now, start, end, response, output, i_anomaly, anomaly_start,
                 anomaly_end, duration, impact, root_causes, i_rc, root_cause,
                 calls, replies>>

\* the anomaly loop is exhausted: the token is read; without one the loop
\* breaks and output is returned
EndPage ==
  /\ pc = "for_anomaly"
  /\ i_anomaly > Len(response.Anomalies)
  /\ next_token' = response.NextPageToken
  /\ IF Truthy(response.NextPageToken)
     THEN pc' = "loop" /\ UNCHANGED result
     ELSE pc' = "returned" /\ result' = Returned(output)
  /\ UNCHANGED <<previous, now, start, end, response, output, i_anomaly, anomaly_start,
                 anomaly_end, duration, impact, root_causes, i_rc, root_cause,
                 calls, replies>>

(* --------------------------- the whole run ---------------------------- *)
\* the pages the listing service can return next: it holds at most
\* MaxRecords records, and hands out a continuation token only while it
\* will serve another call
Responses(records, list_calls) ==
  { [Anomalies |-> a, NextPageToken |-> t] :
      a \in AnomalySeqs(RunAnomalies, RunRootCauses,
                        records - Len(Arrived) - CountRootCauses(Arrived)),
      t \in {None, Str("")} \cup
            (IF Len(ListCalls) < list_calls THEN {Str(k) : k \in Tokens} ELSE {}) }

RunResponses == Responses(MaxRecords, MaxListCalls)

Next ==
  \/ IssueListCall
  \/ \E resp \in RunResponses : ListReturns(resp)
  \/ ListRaises
  \/ NextAnomaly
  \/ NextRootCause
  \/ \E resp \in RunUsageResponses : UsageReturns(resp)
  \/ UsageRaises
  \/ FinishAnomaly
  \/ EndPage

Spec == Init /\ [][Next]_vars

(* ------------------- one anomaly, any dates and impact ---------------- *)
MetricsDates ==
  { <<2023, 12, 30>>, <<2023, 12, 31>>, <<2024, 1, 1>>, <<2024, 2, 28>>,
    <<2024, 2, 29>>, <<2024, 3, 1>>, <<2024, 2, 30>> }

MetricsTimes == {"T00:00:00Z", "T23:59:59Z"}

MetricsTimestamps == {None} \cup {Ts(d, tm) : d \in MetricsDates, tm \in MetricsTimes}

MetricsImpacts ==
  {None, Str("n/a"), Num(0), Num(5), Num(1005), Num(10000), Num(12345)}

\* the single page of a listing service that holds one anomaly record
\* without root causes
MetricsResponses ==
  { [Anomalies |-> << [AnomalyId |-> Str("a1"),
                       AnomalyStartDate |-> s,
                       AnomalyEndDate |-> e,
                       Impact |-> f,
                       RootCauses |-> <<>>] >>,
     NextPageToken |-> None] :
      s \in MetricsTimestamps, e \in MetricsTimestamps, f \in MetricsImpacts }

NextMetrics ==
  \/ IssueListCall
  \/ \E resp \in MetricsResponses : ListReturns(resp)
  \/ NextAnomaly
  \/ FinishAnomaly
  \/ EndPage

SpecMetrics == Init /\ [][NextMetrics]_vars

(* ---------------- one root cause, any dimension values ---------------- *)
Optional(x) == {None, Str(""), Str(x)}

FilterRootCauses ==
  { [Service |-> sv, Region |-> rg, UsageType |-> ut, LinkedAccount |-> la,
     LinkedAccountName |-> ln, Contribution |-> c] :
      sv \in Optional("EC2"), rg \in Optional("us-east-1"),
      ut \in Optional("BoxUsage"), la \in Optional("111"),
      ln \in Optional("prod"), c \in {None, Num(2675)} }

\* the single page of a listing service that holds one anomaly record with
\* one root cause
FilterResponses ==
  { [Anomalies |-> << [AnomalyId |-> Str("a1"),
                       AnomalyStartDate |-> Ts(<<2024, 2, 29>>, "T00:00:00Z"),
                       AnomalyEndDate |-> Ts(<<2024, 2, 29>>, "T00:00:00Z"),
                       Impact |-> Num(10000),
                       RootCauses |-> <<rc>>] >>,
     NextPageToken |-> None] : rc \in FilterRootCauses }

NextFilter ==
  \/ IssueListCall
  \/ \E resp \in FilterResponses : ListReturns(resp)
  \/ NextAnomaly
  \/ NextRootCause
  \/ \E resp \in RunUsageResponses : UsageReturns(resp)
  \/ UsageRaises
  \/ FinishAnomaly
  \/ EndPage

SpecFilter == Init /\ [][NextFilter]_vars

(* ------------- two anomalies with a root cause, any dates ------------- *)
WindowDates ==
  { <<2023, 2, 28>>, <<2023, 12, 31>>, <<2024, 2, 28>>, <<2024, 2, 29>>,
    <<2024, 3, 1>>, <<2024, 4, 30>> }

WindowAnomalies ==
  { [AnomalyId |-> Str("a1"),
     AnomalyStartDate |-> Ts(s, "T00:00:00Z"),
     AnomalyEndDate |-> Ts(e, "T23:59:59Z"),
     Impact |-> Num(10000),
     RootCauses |-> << [Service |-> Str("EC2"), Region |-> None,
                        UsageType |-> None, LinkedAccount |-> None,
                        LinkedAccountName |-> None, Contribution |-> None] >>] :
      s \in WindowDates, e \in WindowDates }

\* the single page of a listing service that holds one or two anomaly
\* records, each with one root cause
WindowResponses ==
  { [Anomalies |-> a, NextPageToken |-> None] :
      a \in SeqsOfLen(WindowAnomalies, 1) \cup SeqsOfLen(WindowAnomalies, 2) }

NextWindow ==
  \/ IssueListCall
  \/ \E resp \in WindowResponses : ListReturns(resp)
  \/ NextAnomaly
  \/ NextRootCause
  \/ \E resp \in RunUsageResponses : UsageReturns(resp)
  \/ UsageRaises
  \/ FinishAnomaly
  \/ EndPage

SpecWindow == Init /\ [][NextWindow]_vars

(* ------------- one or two root causes, any contribution --------------- *)
CostContributions ==
  { None, Str(""), Str("n/a"), Num(0), Num(5), Num(125), Num(1005),
    Num(2675), Num(10000), Num(12344), Num(12345), Num(12346) }

CostRootCauses ==
  { [Service |-> Str("EC2"), Region |-> None, UsageType |-> None,
     LinkedAccount |-> None, LinkedAccountName |-> None,
     Contribution |-> c] : c \in CostContributions }

\* the single page of a listing service that holds one anomaly record with
\* one or two root causes
CostResponses ==
  { [Anomalies |-> << [AnomalyId |-> Str("a1"),
                       AnomalyStartDate |-> Ts(<<2024, 2, 29>>, "T00:00:00Z"),
                       AnomalyEndDate |-> Ts(<<2024, 2, 29>>, "T00:00:00Z"),
                       Impact |-> Num(10000),
                       RootCauses |-> rcs] >>,
     NextPageToken |-> None] :
      rcs \in SeqsOfLen(CostRootCauses, 1) \cup SeqsOfLen(CostRootCauses, 2) }

NextCost ==
  \/ IssueListCall
  \/ \E resp \in CostResponses : ListReturns(resp)
  \/ NextAnomaly
  \/ NextRootCause
  \/ \E resp \in RunUsageResponses : UsageReturns(resp)
  \/ UsageRaises
  \/ FinishAnomaly
  \/ EndPage

SpecCost == Init /\ [][NextCost]_vars

(* --------------- one root cause, any usage response ------------------- *)
\* the most buckets a usage response holds
MaxBuckets == 2

UsageDates == { <<2024, 2, 28>>, <<2024, 3, 1>> }

UsagePeriods ==
  {None, [Start |-> None]} \cup {[Start |-> DateStr(d)] : d \in UsageDates}

UsageTotals ==
  {None, [UnblendedCost |-> None]}
  \cup {[UnblendedCost |-> [Amount |-> a, Unit |-> u]] :
          a \in {None, Str("1.5")}, u \in {None, Str("EUR")}}

UsageBuckets ==
  {[TimePeriod |-> tp, Total |-> tt] : tp \in UsagePeriods, tt \in UsageTotals}

\* usage responses of up to MaxBuckets buckets
UsageResponses ==
  {[ResultsByTime |-> b] :
     b \in UNION {SeqsOfLen(UsageBuckets, n) : n \in 0..MaxBuckets}}

\* the single page of a listing service that holds one anomaly record with
\* one root cause
UsagePage ==
  [Anomalies |-> << [AnomalyId |-> Str("a1"),
                     AnomalyStartDate |-> Ts(<<2024, 2, 28>>, "T00:00:00Z"),
                     AnomalyEndDate |-> Ts(<<2024, 3, 1>>, "T00:00:00Z"),
                     Impact |-> Num(10000),
                     RootCauses |-> << [Service |-> Str("EC2"), Region |-> None,
                                        UsageType |-> None, LinkedAccount |-> None,
                                        LinkedAccountName |-> None,
                                        Contribution |-> None] >>] >>,
   NextPageToken |-> None]

NextUsage ==
  \/ IssueListCall
  \/ ListReturns(UsagePage)
  \/ NextAnomaly
  \/ NextRootCause
  \/ \E resp \in UsageResponses : UsageReturns(resp)
  \/ UsageReturns([ResponseMetadata |-> None])
  \/ UsageRaises
  \/ FinishAnomaly
  \/ EndPage

SpecUsage == Init /\ [][NextUsage]_vars

(* ------------- two runs in a row, the services unchanged -------------- *)
\* fault: output is a module-level list that the second run appends to
FetchAgain_OutputKept ==
  /\ pc \in {"returned", "raised"}
  /\ previous.run = 1
  /\ previous' = [run |-> 2, result |-> result, replies |-> replies]
  /\ start' = FormatDate(ToOrdinal(now) - WindowDays)
  /\ end' = FormatDate(ToOrdinal(now))
  /\ UNCHANGED now
  /\ pc' = "loop"
  /\ next_token' = None
  /\ response' = Undef
  /\ output' = output
  /\ i_anomaly' = 0
  /\ anomaly_start' = 0
  /\ anomaly_end' = 0
  /\ duration' = 0
  /\ impact' = 0
  /\ root_causes' = <<>>
  /\ i_rc' = 0
  /\ root_cause' = Undef
  /\ result' = Undef
  /\ calls' = <<>>
  /\ replies' = <<>>

\* fetch_anomalies is called again after a run has ended: a new client, a
\* new output list, a new window and no token; what the first run returned
\* and what the services answered is kept for the comparison
FetchAgain ==
  /\ pc \in {"returned", "raised"}
  /\ previous.run = 1
  /\ previous' = [run |-> 2, result |-> result, replies |-> replies]
  /\ start' = FormatDate(ToOrdinal(now) - WindowDays)
  /\ end' = FormatDate(ToOrdinal(now))
  /\ UNCHANGED now
  /\ pc' = "loop"
  /\ next_token' = None
  /\ response' = Undef
  /\ output' = <<>>
  /\ i_anomaly' = 0
  /\ anomaly_start' = 0
  /\ anomaly_end' = 0
  /\ duration' = 0
  /\ impact' = 0
  /\ root_causes' = <<>>
  /\ i_rc' = 0
  /\ root_cause' = Undef
  /\ result' = Undef
  /\ calls' = <<>>
  /\ replies' = <<>>

\* the services are unchanged: in the second run the call in flight ends as
\* the call at the same position of the first run did
SameAsBefore ==
  IF Len(replies) < Len(previous.replies)
  THEN {previous.replies[Len(replies) + 1]}
  ELSE {}

TwiceListResponses ==
  IF previous.run = 1 THEN Responses(MaxRecords - 1, MaxListCalls - 1)
  ELSE {r.v : r \in {x \in SameAsBefore : x.ok}}

TwiceUsageResponses ==
  IF previous.run = 1 THEN RunUsageResponses
  ELSE {r.v : r \in {x \in SameAsBefore : x.ok}}

TwiceRaises == previous.run = 1 \/ Raised \in SameAsBefore

NextTwice ==
  \/ IssueListCall
  \/ \E resp \in TwiceListResponses : ListReturns(resp)
  \/ TwiceRaises /\ ListRaises
  \/ NextAnomaly
  \/ NextRootCause
  \/ \E resp \in TwiceUsageResponses : UsageReturns(resp)
  \/ TwiceRaises /\ UsageRaises
  \/ FinishAnomaly
  \/ EndPage
  \/ FetchAgain

SpecTwice == Init /\ [][NextTwice]_vars

(* ------------- the whole run, every step eventually taken ------------- *)
\* the pages of a listing service that stops handing out tokens after
\* MaxListCalls calls
LiveResponses == Responses(MaxRecords - 1, MaxListCalls)

NextLive ==
  \/ IssueListCall
  \/ \E resp \in LiveResponses : ListReturns(resp)
  \/ ListRaises
  \/ NextAnomaly
  \/ NextRootCause
  \/ \E resp \in RunUsageResponses : UsageReturns(resp)
  \/ UsageRaises
  \/ FinishAnomaly
  \/ EndPage

\* the interpreter runs the next statement, and a call in flight returns or
\* raises
SpecLive == Init /\ [][NextLive]_vars /\ WF_vars(NextLive)

(* ------------- the whole run, midnight passing meanwhile -------------- *)
\* the most days that pass while a run is in progress
MaxDaysPassed == 1

\* UTC midnight passes while the run is in progress
Tick ==
  /\ pc \notin {"returned", "raised"}
  /\ ToOrdinal(now) - ToOrdinal(end.date) < MaxDaysPassed
  /\ now' = FromOrdinal(ToOrdinal(now) + 1)
  /\ UNCHANGED <<pc, start, end, next_token, response, output, i_anomaly,
                 anomaly_start, anomaly_end, duration, impact, root_causes,
                 i_rc, root_cause, result, calls, replies, previous>>

NextClock ==
  \/ IssueListCall
  \/ \E resp \in LiveResponses : ListReturns(resp)
  \/ ListRaises
  \/ NextAnomaly
  \/ NextRootCause
  \/ \E resp \in RunUsageResponses : UsageReturns(resp)
  \/ UsageRaises
  \/ FinishAnomaly
  \/ EndPage
  \/ Tick

SpecClock == Init /\ [][NextClock]_vars

(* ---------------------- histories read by the claims ------------------ *)
\* the outcomes of the calls of one kind that have ended, in call order
RECURSIVE RepliesFor(_, _, _)
RepliesFor(op, cs, rs) ==
  IF rs = <<>> THEN <<>>
  ELSE (IF Head(cs).op = op THEN <<Head(rs)>> ELSE <<>>)
       \o RepliesFor(op, Tail(cs), Tail(rs))

ListReplies == RepliesFor("get_anomalies", calls, replies)
UsageReplies == RepliesFor("get_cost_and_usage", calls, replies)

\* a page that carries a continuation token
HasToken(reply) ==
  reply.ok /\ reply.v.NextPageToken # None /\ reply.v.NextPageToken # Str("")

RECURSIVE Flatten(_)
Flatten(entries) ==
  IF entries = <<>> THEN <<>>
  ELSE Head(entries).RootCauses \o Flatten(Tail(entries))

\* the root causes resolved so far, in resolution order: those of the
\* appended anomalies, then those of the anomaly in progress
Resolved ==
  Flatten(output) \o
  (IF pc \in {"for_rc", "get_cost_and_usage"} THEN root_causes ELSE <<>>)

(* ------------------------------- claims ------------------------------- *)
\* C1: pagination is exhaustive. The first list call carries no token, every
\* later list call carries the token of the response just before it, no list
\* call follows a response without a token, and a run that returns after the
\* service handed out n tokens has issued exactly n + 1 list calls.
C1_PaginationExhaustive ==
  LET lc == ListCalls
      lr == ListReplies
  IN /\ lc # <<>> => lc[1].NextPageToken = None
     /\ \A i \in 2..Len(lc) :
          /\ HasToken(lr[i - 1])
          /\ lc[i].NextPageToken = lr[i - 1].v.NextPageToken
     /\ \A i \in 1..Len(lr) : (lr[i].ok /\ ~HasToken(lr[i])) => Len(lc) = i
     /\ pc = "returned" =>
          Len(lc) = Cardinality({i \in 1..Len(lr) : HasToken(lr[i])}) + 1

\* a run that returned after three pages chained by two different tokens
C1_Witness ==
  /\ pc = "returned"
  /\ Len(ListCalls) = 3
  /\ ListCalls[2].NextPageToken # ListCalls[3].NextPageToken

\* C2: once the listing service has returned a continuation token it already
\* returned earlier in the run, no further list call is issued and the run
\* has failed.
C2_RepeatingTokenIsFatal ==
  LET lr == ListReplies
  IN \A i \in 1..Len(lr), j \in 1..Len(lr) :
       (i < j /\ HasToken(lr[i]) /\ HasToken(lr[j])
          /\ lr[i].v.NextPageToken = lr[j].v.NextPageToken)
       => (Len(ListCalls) = j /\ pc # "loop" /\ result.t # "model")

\* C3: the model lists the anomalies in arrival order and, on each, the root
\* causes in the order of the raw records: entry i is built from the i-th
\* record received, its j-th root cause from that record's j-th root cause.
C3_ArrivalOrder ==
  LET arrived == Arrived
  IN /\ Len(output) <= Len(arrived)
     /\ \A i \in 1..Len(output) :
          LET entry == output[i]
              raw == arrived[i]
          IN /\ entry.AnomalyId = raw.AnomalyId
             /\ entry.StartDate = raw.AnomalyStartDate
             /\ entry.EndDate = raw.AnomalyEndDate
             /\ Len(entry.RootCauses) = Len(raw.RootCauses)
             /\ \A j \in 1..Len(entry.RootCauses) :
                  /\ entry.RootCauses[j].Service = raw.RootCauses[j].Service
                  /\ entry.RootCauses[j].Region = raw.RootCauses[j].Region
                  /\ entry.RootCauses[j].UsageType = raw.RootCauses[j].UsageType
                  /\ entry.RootCauses[j].LinkedAccount = raw.RootCauses[j].LinkedAccount
                  /\ entry.RootCauses[j].LinkedAccountName
                       = raw.RootCauses[j].LinkedAccountName
     /\ result.t = "model" => (result.v = output /\ Len(output) = Len(arrived))

\* a returned model of two different anomalies that arrived on two pages, the
\* first of them carrying a root cause
C3_Witness ==
  /\ result.t = "model"
  /\ Len(result.v) = 2
  /\ Len(ListCalls) = 2
  /\ Len(ListReplies[1].v.Anomalies) = 1
  /\ result.v[1].AnomalyId # result.v[2].AnomalyId
  /\ Len(result.v[1].RootCauses) = 1

\* a usage response every bucket of which has its period start and its total
WellFormed(resp) ==
  /\ "ResultsByTime" \in DOMAIN resp
  /\ \A k \in 1..Len(resp.ResultsByTime) :
       /\ resp.ResultsByTime[k].Total # None
       /\ resp.ResultsByTime[k].TimePeriod # None
       /\ resp.ResultsByTime[k].TimePeriod.Start # None

\* C4: a usage fetch that raises never raises out of fetch_anomalies and
\* leaves that one root cause with an empty series, while every root cause
\* whose fetch succeeded has one point per bucket returned, siblings of a
\* failed fetch included.
C4_UsageFailureIsolated ==
  LET resolved == Resolved
      ur == UsageReplies
  IN /\ result.t = "exception" => result.from # "get_cost_and_usage"
     /\ pc # "raised" => Len(resolved) = Len(ur)
     /\ \A k \in 1..Len(resolved) :
          /\ k <= Len(ur)
          /\ ~ur[k].ok => resolved[k].CostUsageGraph = <<>>
          /\ (ur[k].ok /\ WellFormed(ur[k].v)) =>
               /\ Len(resolved[k].CostUsageGraph) = Len(ur[k].v.ResultsByTime)
               /\ \A b \in 1..Len(resolved[k].CostUsageGraph) :
                    resolved[k].CostUsageGraph[b].Date
                      = ur[k].v.ResultsByTime[b].TimePeriod.Start

\* a returned anomaly with two root causes: the first fetch raised and its
\* series is empty, the second returned three buckets and has three points
C4_Witness ==
  /\ result.t = "model"
  /\ Len(result.v) = 1
  /\ Len(result.v[1].RootCauses) = 2
  /\ Len(UsageReplies) = 2
  /\ ~UsageReplies[1].ok
  /\ result.v[1].RootCauses[1].CostUsageGraph = <<>>
  /\ Len(result.v[1].RootCauses[2].CostUsageGraph) = 3

\* C5: a list call that raises, on any page, fails the run: the caller gets
\* the exception and no model, and nothing is called afterwards.
C5_ListFailureIsFatal ==
  LET lr == ListReplies
  IN \A i \in 1..Len(lr) :
       ~lr[i].ok =>
         /\ pc = "raised"
         /\ result = Exception("get_anomalies")
         /\ i = Len(ListCalls)
         /\ Len(calls) = Len(replies)
         /\ ~replies[Len(replies)].ok

\* the list call of the second page raised after the first page's anomaly
\* had been appended
C5_Witness ==
  /\ Len(ListReplies) = 2
  /\ ~ListReplies[2].ok
  /\ output # <<>>
  /\ result.t = "exception"

\* C6: a run ends in one of two ways: it raised and the caller has no model,
\* or it returned a model with one entry per anomaly record received and, on
\* each, one root cause per raw root-cause record, failed fetches included.
C6_CompleteModelOrFailure ==
  /\ pc = "raised" <=> result.t = "exception"
  /\ pc = "returned" <=> result.t = "model"
  /\ pc \notin {"raised", "returned"} <=> result = Undef
  /\ result.t = "model" =>
       LET arrived == Arrived
       IN /\ Len(result.v) = Len(arrived)
          /\ \A i \in 1..Len(result.v) :
               Len(result.v[i].RootCauses) = Len(arrived[i].RootCauses)

\* a returned model holding a root cause whose usage fetch had raised
C6_Witness ==
  /\ result.t = "model"
  /\ \E k \in 1..Len(UsageReplies) : ~UsageReplies[k].ok
  /\ \E i \in 1..Len(result.v) : result.v[i].RootCauses # <<>>

\* the calendar, and the order of its days, read off the date text
Calendar == {d \in Years \X (1..12) \X (1..31) : ValidDate(d)}

DateLeq(a, b) ==
  \/ a[1] < b[1]
  \/ a[1] = b[1] /\ a[2] < b[2]
  \/ a[1] = b[1] /\ a[2] = b[2] /\ a[3] <= b[3]

Abs(x) == IF x < 0 THEN -x ELSE x

Cents(str2) == str2.whole * 100 + str2.frac

\* the thousandths of an anomaly record's total impact, 0 when it has none
RawImpact(anomaly) == IF anomaly.Impact = None THEN 0 ELSE anomaly.Impact.v

\* C7: every anomaly of the model has durationDays >= 1, whatever dates the
\* listing service returned.
C7_DurationAtLeastOne ==
  \A i \in 1..Len(output) : output[i].DurationInDays >= 1

\* C8: for an anomaly whose end date is on or after its start date,
\* durationDays is the number of calendar days from the start date to the end
\* date, both included, whatever the times of day of the two timestamps.
C8_DurationIsInclusiveSpan ==
  \A i \in 1..Len(output) :
    LET s == Arrived[i].AnomalyStartDate.date
        e == Arrived[i].AnomalyEndDate.date
    IN DateLeq(s, e) =>
         output[i].DurationInDays
           = Cardinality({d \in Calendar : DateLeq(s, d) /\ DateLeq(d, e)})

\* an anomaly from 28 February to 1 March of a leap year, the start stamped
\* late in its day and the end early: three days
C8_Witness ==
  /\ Len(output) = 1
  /\ Arrived[1].AnomalyStartDate = Ts(<<2024, 2, 28>>, "T23:59:59Z")
  /\ Arrived[1].AnomalyEndDate = Ts(<<2024, 3, 1>>, "T00:00:00Z")
  /\ output[1].DurationInDays = 3

\* C9: for every anomaly, durationDays is never 0; if it is positive,
\* averageDailyImpact is totalImpact / durationDays to the nearest cent,
\* otherwise averageDailyImpact is totalImpact; and no run fails in
\* computing it.
C9_AverageDailyImpact ==
  /\ \A i \in 1..Len(output) :
       LET d == output[i].DurationInDays
           n == RawImpact(Arrived[i])
       IN /\ d # 0
          /\ d > 0 =>
               2 * Abs(10 * d * Cents(output[i].AverageDailyCost) - n) <= 10 * d
          /\ d <= 0 => output[i].AverageDailyCost = output[i].TotalCostImpact
  /\ result.t = "exception" => result.from \in {"strptime", "float"}

\* an anomaly of several days whose daily average differs from its total
C9_Witness ==
  /\ result.t = "model"
  /\ Len(result.v) = 1
  /\ result.v[1].DurationInDays > 1
  /\ RawImpact(Arrived[1]) > 0
  /\ result.v[1].AverageDailyCost # result.v[1].TotalCostImpact

\* a dimension value that is neither missing nor the empty string
Present(x) == x # None /\ x # Str("")

NumPresent(rc) ==
  Cardinality({k \in {"Service", "Region", "UsageType", "LinkedAccount"} :
                 Present(rc[k])})

FilterShape(f) ==
  IF f = None THEN "none"
  ELSE IF DOMAIN f = {"Dimensions"} THEN "single"
  ELSE IF DOMAIN f = {"And"} THEN "and"
  ELSE "other"

\* C10: the filter of the usage query of a root cause has the shape its
\* number of present dimension values decides: none for zero, one bare
\* dimension clause for exactly one, one And of that many clauses for more.
C10_FilterShape ==
  \A k \in 1..Len(UsageCalls) :
    LET n == NumPresent(Flatten(Arrived)[k])
        f == UsageCalls[k].Filter
    IN /\ FilterShape(f) = (IF n = 0 THEN "none" ELSE IF n = 1 THEN "single" ELSE "and")
       /\ n >= 2 => Len(f.And) = n

\* a usage query for a root cause whose only present value is its region,
\* the service being the empty string: one bare clause
C10_Witness ==
  /\ Len(UsageCalls) = 1
  /\ Flatten(Arrived)[1].Service = Str("")
  /\ Flatten(Arrived)[1].Region = Str("us-east-1")
  /\ NumPresent(Flatten(Arrived)[1]) = 1
  /\ FilterShape(UsageCalls[1].Filter) = "single"

\* the filter keys in their fixed order, each with the field it is read from
DimensionKeys ==
  << <<"SERVICE", "Service">>, <<"REGION", "Region">>,
     <<"USAGE_TYPE", "UsageType">>, <<"LINKED_ACCOUNT", "LinkedAccount">> >>

\* the clauses a filter lists, in order
Clauses(f) ==
  IF f = None THEN <<>>
  ELSE IF DOMAIN f = {"And"} THEN f.And
  ELSE <<f>>

\* one equality clause per present dimension value of a raw root cause, in
\* key order
ExpectedClauses(rc) ==
  LET present == SelectSeq(DimensionKeys, LAMBDA p : Present(rc[p[2]]))
  IN [i \in 1..Len(present) |->
        [Dimensions |-> [Key |-> present[i][1], Values |-> <<rc[present[i][2]]>>]]]

\* C11: the clauses of the filter of a usage query are exactly the dimensions
\* of the root cause whose value is neither missing nor empty, one clause per
\* dimension carrying that one value, in the order SERVICE, REGION,
\* USAGE_TYPE, LINKED_ACCOUNT.
C11_FilterClauses ==
  LET raw == Flatten(Arrived)
      uc == UsageCalls
  IN \A k \in 1..Len(uc) : Clauses(uc[k].Filter) = ExpectedClauses(raw[k])

\* a usage query for a root cause with an empty service, a region, no usage
\* type and a linked account: the clauses are REGION then LINKED_ACCOUNT
C11_Witness ==
  /\ Len(UsageCalls) = 1
  /\ Flatten(Arrived)[1].Service = Str("")
  /\ Flatten(Arrived)[1].UsageType = None
  /\ Len(Clauses(UsageCalls[1].Filter)) = 2
  /\ Clauses(UsageCalls[1].Filter)[1].Dimensions.Key = "REGION"
  /\ Clauses(UsageCalls[1].Filter)[2].Dimensions.Key = "LINKED_ACCOUNT"

\* the anomaly record each arrived root cause belongs to, in arrival order
RECURSIVE Owners(_)
Owners(entries) ==
  IF entries = <<>> THEN <<>>
  ELSE [i \in 1..Len(Head(entries).RootCauses) |-> Head(entries)]
       \o Owners(Tail(entries))

\* the calendar day after a date
NextDay(d) ==
  IF ValidDate(<<d[1], d[2], d[3] + 1>>) THEN <<d[1], d[2], d[3] + 1>>
  ELSE IF d[2] < 12 THEN <<d[1], d[2] + 1, 1>>
  ELSE <<d[1] + 1, 1, 1>>

\* C12: the time window of every usage query starts on the start date of the
\* anomaly that owns the root cause and ends on the day after that anomaly's
\* end date, whatever the dates of the other anomalies of the run; for an
\* anomaly that starts and ends on the same day the window is one day wide.
C12_UsageWindow ==
  LET owner == Owners(Arrived)
      uc == UsageCalls
  IN \A k \in 1..Len(uc) :
       /\ uc[k].TimePeriod.Start = DateStr(owner[k].AnomalyStartDate.date)
       /\ uc[k].TimePeriod.End = DateStr(NextDay(owner[k].AnomalyEndDate.date))
       /\ owner[k].AnomalyStartDate.date = owner[k].AnomalyEndDate.date
            => ToOrdinal(uc[k].TimePeriod.End.date)
                 - ToOrdinal(uc[k].TimePeriod.Start.date) = 1

\* two anomalies with different dates: the first ends on the last day of a
\* year, the second starts and ends on a leap day, and the second's query
\* runs from the leap day to the first of March
C12_Witness ==
  /\ Len(UsageCalls) = 2
  /\ Arrived[1].AnomalyStartDate.date = <<2023, 2, 28>>
  /\ Arrived[1].AnomalyEndDate.date = <<2023, 12, 31>>
  /\ UsageCalls[1].TimePeriod.End = DateStr(<<2024, 1, 1>>)
  /\ Arrived[2].AnomalyStartDate.date = <<2024, 2, 29>>
  /\ Arrived[2].AnomalyEndDate.date = <<2024, 2, 29>>
  /\ UsageCalls[2].TimePeriod = [Start |-> DateStr(<<2024, 2, 29>>),
                                 End |-> DateStr(<<2024, 3, 1>>)]

\* C13: a root cause whose record has no contribution has costImpact "0.00";
\* a numeric contribution is written with two decimals, rounded to the
\* nearest cent, so that 12.345 gives "12.35".
C13_CostImpactFormatted ==
  LET raw == Flatten(Arrived)
      done == Resolved
  IN \A k \in 1..Len(done) :
       LET c == raw[k].Contribution
       IN /\ c = None => done[k].CostImpact = Str2(0)
          /\ c.t = "num" =>
               /\ done[k].CostImpact.frac \in 0..99
               /\ 2 * Abs(10 * Cents(done[k].CostImpact) - c.v) <= 10
          /\ c = Num(12345) => done[k].CostImpact = Str2(1235)

\* a run that returns a root cause without contribution, "0.00", and one
\* with 12.345, "12.35"
C13_Witness ==
  /\ result.t = "model"
  /\ Len(Resolved) = 2
  /\ Flatten(Arrived)[1].Contribution = None
  /\ Resolved[1].CostImpact = [t |-> "str", whole |-> 0, frac |-> 0]
  /\ Flatten(Arrived)[2].Contribution = Num(12345)
  /\ Resolved[2].CostImpact = [t |-> "str", whole |-> 12, frac |-> 35]

\* C14: a contribution that is present but not a number gives costImpact
\* "0.00" and the run goes on; it fails neither the anomaly nor the run.
\* (float() raises on such a value and the exception leaves the run.)
C14_NonNumericContributionDefaults ==
  LET raw == Flatten(Arrived)
      done == Resolved
  IN /\ \A k \in 1..Len(done) :
          raw[k].Contribution.t = "str" => done[k].CostImpact = Str2(0)
     /\ result.t = "exception" => result.from # "RootCauseEntry"

\* C16: at most one call to the billing API is in flight at any point of a
\* run: a call is issued only when every earlier call has ended, and the run
\* does nothing else while a call is in flight.
C16_OneCallInFlight ==
  LET inflight == Len(calls) - Len(replies)
  IN /\ inflight \in {0, 1}
     /\ inflight = 1 <=> pc \in {"get_anomalies", "get_cost_and_usage"}

\* a usage query in flight after a list call and an earlier usage query
\* have both ended
C16_Witness ==
  /\ pc = "get_cost_and_usage"
  /\ Len(calls) = 3
  /\ Len(replies) = 2
  /\ calls[2].op = "get_cost_and_usage"

\* C17: every root cause gets its usage series from exactly one usage query,
\* built from its own dimension values; a run that returns has issued as many
\* usage queries as root-cause records arrived, those without any dimension
\* value and those whose query failed included (a failed query is not tried
\* again and leaves the series empty).
C17_OneUsageCallPerRootCause ==
  LET raw == Flatten(Arrived)
      done == Resolved
      uc == UsageCalls
      ur == UsageReplies
  IN /\ Len(uc) <= Len(raw)
     /\ \A k \in 1..Len(uc) : Clauses(uc[k].Filter) = ExpectedClauses(raw[k])
     /\ pc # "raised" =>
          /\ Len(ur) = Len(done)
          /\ Len(uc) = Len(done) + (IF pc = "get_cost_and_usage" THEN 1 ELSE 0)
          /\ \A k \in 1..Len(done) : ~ur[k].ok => done[k].CostUsageGraph = <<>>
     /\ pc = "returned" => Len(uc) = Len(raw)

\* a run that returns two root causes: the first has no dimension value and
\* its query raised, the second has all four; two usage queries were issued
C17_Witness ==
  /\ pc = "returned"
  /\ Len(Flatten(Arrived)) = 2
  /\ Len(UsageCalls) = 2
  /\ UsageCalls[1].Filter = None
  /\ ~UsageReplies[1].ok
  /\ Len(Clauses(UsageCalls[2].Filter)) = 4

\* the amount and the unit a bucket carries, None when it carries none
BucketAmount(bucket) ==
  IF bucket.Total.UnblendedCost = None THEN None
  ELSE bucket.Total.UnblendedCost.Amount

BucketUnit(bucket) ==
  IF bucket.Total.UnblendedCost = None THEN None
  ELSE bucket.Total.UnblendedCost.Unit

\* C18: for a usage response that is mapped, the series has exactly one point
\* per returned bucket, in the order returned; the point's date is the
\* bucket's period start, its amount the returned amount ("0" when there is
\* none) and its unit the returned unit ("USD" when there is none). No point
\* is made for a day the response has no bucket for.
C18_OnePointPerBucket ==
  LET done == Resolved
      ur == UsageReplies
  IN \A k \in 1..Len(done) :
       (ur[k].ok /\ WellFormed(ur[k].v)) =>
         LET buckets == ur[k].v.ResultsByTime
             points == done[k].CostUsageGraph
         IN /\ Len(points) = Len(buckets)
            /\ \A b \in 1..Len(buckets) :
                 /\ points[b].Date = buckets[b].TimePeriod.Start
                 /\ points[b].Amount
                      = (IF BucketAmount(buckets[b]) = None THEN Str("0")
                         ELSE BucketAmount(buckets[b]))
                 /\ points[b].Unit
                      = (IF BucketUnit(buckets[b]) = None THEN Str("USD")
                         ELSE BucketUnit(buckets[b]))

\* a response with a bucket for 28 February and one for 1 March and none for
\* the 29th: two points, the second with the default amount and unit
C18_Witness ==
  /\ result.t = "model"
  /\ Len(UsageReplies) = 1
  /\ UsageReplies[1].ok
  /\ UsageReplies[1].v.ResultsByTime
       = << [TimePeriod |-> [Start |-> DateStr(<<2024, 2, 28>>)],
             Total |-> [UnblendedCost |-> [Amount |-> Str("1.5"), Unit |-> Str("EUR")]]],
            [TimePeriod |-> [Start |-> DateStr(<<2024, 3, 1>>)],
             Total |-> [UnblendedCost |-> None]] >>
  /\ result.v[1].RootCauses[1].CostUsageGraph
       = << [Date |-> DateStr(<<2024, 2, 28>>), Amount |-> Str("1.5"), Unit |-> Str("EUR")],
            [Date |-> DateStr(<<2024, 3, 1>>), Amount |-> Str("0"), Unit |-> Str("USD")] >>

\* C19: an anomaly record without a total impact does not fail the run: the
\* anomaly is in the model with totalImpact "0.00" and averageDailyImpact
\* "0.00".
C19_MissingImpactIsZero ==
  LET arrived == Arrived
  IN /\ \A i \in 1..Len(output) :
          arrived[i].Impact = None =>
            /\ output[i].TotalCostImpact = Str2(0)
            /\ output[i].AverageDailyCost = Str2(0)
     /\ result = Exception("float") => response.Anomalies[i_anomaly].Impact # None
     /\ (pc = "returned" /\ Len(arrived) = 1) => Len(output) = 1

\* a returned anomaly of three days whose record had no total impact
C19_Witness ==
  /\ result.t = "model"
  /\ Len(result.v) = 1
  /\ Arrived[1].Impact = None
  /\ result.v[1].DurationInDays = 3
  /\ result.v[1].TotalCostImpact = [t |-> "str", whole |-> 0, frac |-> 0]
  /\ result.v[1].AverageDailyCost = [t |-> "str", whole |-> 0, frac |-> 0]

RawFields == {"Service", "Region", "UsageType", "LinkedAccount", "LinkedAccountName"}

\* C20: a root cause of the model carries the service, region, usage type,
\* linked account and linked account name of its record unchanged: a missing
\* value is null and never the empty string, an empty string stays an empty
\* string.
C20_RawFieldsUnchanged ==
  LET raw == Flatten(Arrived)
      done == Resolved
  IN \A k \in 1..Len(done) : \A f \in RawFields :
       /\ done[k][f] = raw[k][f]
       /\ raw[k][f] = None => done[k][f] # Str("")
       /\ raw[k][f] = Str("") => done[k][f] # None

\* a returned root cause with a missing service, an empty region and a
\* linked account name
C20_Witness ==
  /\ result.t = "model"
  /\ Flatten(Arrived)[1].Service = None
  /\ Flatten(Arrived)[1].Region = Str("")
  /\ result.v[1].RootCauses[1].Service = None
  /\ result.v[1].RootCauses[1].Region = Str("")
  /\ result.v[1].RootCauses[1].UsageType = Str("BoxUsage")
  /\ result.v[1].RootCauses[1].LinkedAccountName = Str("prod")

\* C15: a second run of fetch_anomalies against unchanged services ends as
\* the first did, with an equal model; nothing of the first run is left in
\* the second.
C15_SecondRunEqual ==
  (previous.run = 2 /\ pc \in {"returned", "raised"}) =>
    /\ result = previous.result
    /\ replies = previous.replies

\* a second run that returns the same two pages as the first: an anomaly with
\* a root cause whose series has three points
C15_Witness ==
  /\ previous.run = 2
  /\ pc = "returned"
  /\ Len(ListCalls) = 2
  /\ Len(result.v) = 1
  /\ Len(result.v[1].RootCauses) = 1
  /\ Len(result.v[1].RootCauses[1].CostUsageGraph) = 3
  /\ previous.result = result

\* C21: every anomaly of the model has lastDetectedDate equal to its endDate,
\* which is the end timestamp of its record, and currency "USD", whatever the
\* listing service returned.
C21_LastDetectedAndCurrency ==
  LET arrived == Arrived
  IN \A i \in 1..Len(output) :
       /\ output[i].LastDetectedDate = output[i].EndDate
       /\ output[i].LastDetectedDate = arrived[i].AnomalyEndDate
       /\ output[i].Currency = "USD"

\* a returned anomaly that starts on 28 February and ends on 1 March: the
\* last detection is the end timestamp
C21_Witness ==
  /\ result.t = "model"
  /\ Len(result.v) = 1
  /\ result.v[1].StartDate = Ts(<<2024, 2, 28>>, "T00:00:00Z")
  /\ result.v[1].EndDate = Ts(<<2024, 3, 1>>, "T23:59:59Z")
  /\ result.v[1].LastDetectedDate = Ts(<<2024, 3, 1>>, "T23:59:59Z")
  /\ result.v[1].Currency = "USD"

\* C22: once an anomaly has been appended to output, no later step of the run
\* changes it, its root causes or their usage series: every step leaves
\* every entry of output in its place and as it was.
C22_AppendedEntriesFrozen ==
  [][\A i \in 1..Len(output) : Len(output') >= i /\ output'[i] = output[i]]_vars

\* a second page's anomaly has been processed and appended after the anomaly
\* of the first page, which still has its root cause and its series
C22_Witness ==
  /\ pc = "for_anomaly"
  /\ Len(ListCalls) = 2
  /\ Len(output) = 2
  /\ Len(output[1].RootCauses) = 1
  /\ Len(output[1].RootCauses[1].CostUsageGraph) = 3

\* C23: when every billing-API call returns or raises and the listing
\* service stops handing out continuation tokens after finitely many pages,
\* the run ends, with a model or with a failure.
C23_Terminates == <>(pc \in {"returned", "raised"})

\* a run that returned after three pages, with an anomaly and a root cause
C23_Witness ==
  /\ pc = "returned"
  /\ Len(ListCalls) = 3
  /\ Len(result.v) = 1
  /\ Len(result.v[1].RootCauses) = 1

\* the positions of the list calls among the calls issued
ListPositions ==
  SelectSeq([i \in 1..Len(calls) |-> i], LAMBDA i : calls[i].op = "get_anomalies")

C25_SeriesAllOrNothing ==
  LET done == Resolved
      ur == UsageReplies
  IN \A k \in 1..Len(done) :
       /\ (ur[k].ok /\ ~WellFormed(ur[k].v)) => done[k].CostUsageGraph = <<>>
       /\ done[k].CostUsageGraph # <<>> =>
            /\ ur[k].ok
            /\ WellFormed(ur[k].v)
            /\ Len(done[k].CostUsageGraph) = Len(ur[k].v.ResultsByTime)

\* a response whose first bucket is sound and whose second has no total:
\* the run returns the root cause with an empty series
C25_Witness ==
  /\ result.t = "model"
  /\ Len(UsageReplies) = 1
  /\ UsageReplies[1].ok
  /\ "ResultsByTime" \in DOMAIN UsageReplies[1].v
  /\ Len(UsageReplies[1].v.ResultsByTime) = 2
  /\ UsageReplies[1].v.ResultsByTime[1]
       = [TimePeriod |-> [Start |-> DateStr(<<2024, 2, 28>>)],
          Total |-> [UnblendedCost |-> [Amount |-> Str("1.5"), Unit |-> Str("EUR")]]]
  /\ UsageReplies[1].v.ResultsByTime[2].Total = None
  /\ result.v[1].RootCauses[1].CostUsageGraph = <<>>

\* a page whose token is missing or is the empty string
Tokenless(reply) == reply.ok /\ reply.v.NextPageToken \in {None, Str("")}

\* C26: the first list call of a run carries no continuation token, and a
\* page whose token is present but empty ends the paging exactly as a page
\* without a token does: its anomalies are processed, no further list call
\* is issued, and the run returns.
C26_EmptyTokenEndsPaging ==
  LET lc == ListCalls
      lr == ListReplies
  IN /\ lc # <<>> => lc[1].NextPageToken = None
     /\ \A i \in 1..Len(lr) :
          Tokenless(lr[i]) =>
            /\ i = Len(lc)
            /\ pc \in {"for_anomaly", "for_rc", "get_cost_and_usage",
                       "returned", "raised"}
     /\ pc = "returned" => (Tokenless(lr[Len(lr)]) /\ result = Returned(output))

\* a run that returned after a second page whose token was the empty string
C26_Witness ==
  /\ pc = "returned"
  /\ Len(ListReplies) = 2
  /\ ListReplies[2].v.NextPageToken = Str("")
  /\ ListCalls[1].NextPageToken = None
  /\ Len(result.v) = 2

\* C27: every list call of a run carries the same date window, the one fixed
\* before the first call, 90 days wide: paging does not change its start or
\* its end, even when midnight passes between two pages.
C27_WindowFixed ==
  LET lc == ListCalls
  IN \A i \in 1..Len(lc) :
       /\ lc[i].DateInterval = lc[1].DateInterval
       /\ lc[i].DateInterval = [StartDate |-> start, EndDate |-> end]
       /\ ToOrdinal(lc[i].DateInterval.EndDate.date)
            - ToOrdinal(lc[i].DateInterval.StartDate.date) = WindowDays

\* the run started on 1 March, midnight has passed, and the list call of the
\* third page carries the window that ends on 1 March
C27_Witness ==
  /\ Len(ListCalls) = 3
  /\ now = <<2024, 3, 2>>
  /\ ListCalls[3].DateInterval
       = [StartDate |-> DateStr(<<2023, 12, 2>>), EndDate |-> DateStr(<<2024, 3, 1>>)]

\* a timestamp that is missing or whose date part is no calendar date
Unparseable(ts) == ts = None \/ ts.date \notin Calendar

BadDates(anomaly) ==
  Unparseable(anomaly.AnomalyStartDate) \/ Unparseable(anomaly.AnomalyEndDate)

\* C28: an anomaly record whose start or end timestamp cannot be parsed as a
\* date aborts the run with an error to the caller: no model is returned,
\* the anomalies processed before it included, and no billing-API call is
\* issued for it or after it.
C28_BadDateAbortsRun ==
  LET arrived == Arrived
      uc == UsageCalls
  IN /\ \A i \in 1..Len(arrived) :
          BadDates(arrived[i]) =>
            /\ Len(output) < i
            /\ pc # "returned"
            /\ result.t # "model"
            /\ Len(uc) <= CountRootCauses(SubSeq(arrived, 1, i - 1))
     /\ result = Exception("strptime") =>
          /\ pc = "raised"
          /\ BadDates(arrived[Len(output) + 1])
          /\ Len(calls) = Len(replies)
          /\ Len(uc) = CountRootCauses(SubSeq(arrived, 1, Len(output)))
     /\ (pc = "for_rc" /\ i_rc = 1) => ~BadDates(arrived[Len(output) + 1])

\* the second record of a run has the start date 30 February: the run has
\* raised after the first record, with its root cause, had been appended
C28_Witness ==
  /\ result = Exception("strptime")
  /\ Len(Arrived) >= 2
  /\ Len(output) = 1
  /\ Len(output[1].RootCauses) = 1
  /\ Arrived[2].AnomalyStartDate.date = <<2024, 2, 30>>

\* the cents string s is a nearest cent of n thousandths divided by d
NearestCent(s, n, d) == 2 * Abs(10 * d * Cents(s) - n) <= 10 * d

\* C29: averageDailyImpact is computed from the unrounded total impact and
\* not from the two-decimal totalImpact string: it is impact / durationDays
\* to the nearest cent, and where the string divided by durationDays rounds
\* to another cent than that, averageDailyImpact is not that value.
C29_AverageFromUnroundedImpact ==
  LET arrived == Arrived
  IN \A i \in 1..Len(output) :
       LET d == output[i].DurationInDays
           n == RawImpact(arrived[i])
           via == Fmt2(10 * Cents(output[i].TotalCostImpact), IF d > 0 THEN d ELSE 1)
       IN d > 0 =>
            /\ NearestCent(output[i].AverageDailyCost, n, d)
            /\ ~NearestCent(via, n, d) => output[i].AverageDailyCost # via

\* an impact of 0.005 over two days: totalImpact is "0.01", and the average
\* is "0.00", not the "0.01" that "0.01" / 2 formats to
C29_Witness ==
  /\ result.t = "model"
  /\ Len(result.v) = 1
  /\ Arrived[1].Impact = Num(5)
  /\ result.v[1].DurationInDays = 2
  /\ result.v[1].TotalCostImpact = [t |-> "str", whole |-> 0, frac |-> 1]
  /\ result.v[1].AverageDailyCost = [t |-> "str", whole |-> 0, frac |-> 0]
  /\ Fmt2(10 * Cents(result.v[1].TotalCostImpact), 2) = [t |-> "str", whole |-> 0, frac |-> 1]

====
